---- MODULE Spec2Model ----
(***************************************************************************)
(* Model of FireCrawlLoader                                                *)
(* (libs/community/langchain_community/document_loaders/firecrawl.py).     *)
(*                                                                         *)
(* One loader instance, its construction (__init__), assignment to its     *)
(* public attributes by client code, and lazy_load, a generator: the       *)
(* dispatch part runs up to the external call, then one step per item of   *)
(* the returned sequence.  Client code has the turn whenever no generator  *)
(* code is running: between loads, and while the generator is suspended   *)
(* at its yield; it can then assign url, mode, params or firecrawl, resume  *)
(* the generator, close it, or start another lazy_load.  The model follows *)
(* one generator, the last one started: an earlier one that is left        *)
(* suspended shares nothing with it but the attributes, which no           *)
(* generator assigns.  The external client (FirecrawlApp) is a recording   *)
(* mock: the call of a load is made on the client self.firecrawl holds at  *)
(* the dispatch and recorded in calls, and its answer (a value, or a       *)
(* raised error) is chosen nondeterministically.                           *)
(*                                                                         *)
(* Python values are tagged records [t |-> type, v |-> value], so that     *)
(* truthiness, getattr defaults and str() are computed as Python does.     *)
(***************************************************************************)
EXTENDS Integers, Sequences, FiniteSets, TLC

VARIABLES
    constructed,    \* an instance exists (the last __init__ returned)
    self_url,       \* self.url
    self_mode,      \* self.mode
    self_params,    \* self.params
    self_firecrawl, \* self.firecrawl: the client, by the api key it was built with
    op,             \* the last method invoked, __init__ with its arguments and outcome
    reassigned,     \* self.mode was assigned while the generator was suspended
    pc,             \* "idle", or "iter" while the generator is in its for loop
    load_state,     \* "none" | "running" | "done" | "failed" | "closed"
    load_error,     \* the exception that left lazy_load (NoError if none)
    so_outcome,     \* what building ScrapeOptions did in the last dispatch
    calls,          \* calls recorded by the client mock during the last load
    response,       \* value returned by the external call of the last load
    firecrawl_docs, \* local firecrawl_docs
    idx,            \* number of items of firecrawl_docs the for loop has taken
    doc,            \* local doc
    page_content,   \* local page_content
    metadata,       \* local metadata
    yielded,        \* the last loop step reached the yield
    emitted         \* Documents yielded by the last load, in order

vars == <<constructed, self_url, self_mode, self_params, self_firecrawl,
          op, reassigned, pc, load_state, load_error, so_outcome, calls,
          response, firecrawl_docs, idx, doc, page_content, metadata,
          yielded, emitted>>

inst == <<constructed, self_url, self_mode, self_params, self_firecrawl>>

locals == <<doc, page_content, metadata, yielded>>

----------------------------------------------------------------------------
(* Bounds *)

MaxItems == 2

----------------------------------------------------------------------------
(* Python values *)

PyNone == [t |-> "None"]

Str(s) == [t |-> "str", v |-> s]

IntV(n) == [t |-> "int", v |-> n]

BoolV(b) == [t |-> "bool", v |-> b]

List(q) == [t |-> "list", v |-> q]

Dict(f) == [t |-> "dict", v |-> f]

Obj(attrs) == [t |-> "obj", v |-> attrs]

EmptyMap == [k \in {} |-> PyNone]

EmptyDict == Dict(EmptyMap)

\* bool(x)
Truthy(x) ==
    CASE x.t = "None" -> FALSE
      [] x.t = "str"  -> x.v # ""
      [] x.t = "int"  -> x.v # 0
      [] x.t = "bool" -> x.v
      [] x.t = "list" -> Len(x.v) > 0
      [] x.t = "dict" -> DOMAIN x.v # {}
      [] OTHER        -> TRUE

\* a or b
Or(a, b) == IF Truthy(a) THEN a ELSE b

\* getattr(o, name, default)
GetAttr(o, name, default) ==
    IF o.t = "obj" /\ name \in DOMAIN o.v THEN o.v[name] ELSE default

\* hasattr(o, name)
HasAttr(o, name) == o.t = "obj" /\ name \in DOMAIN o.v

\* str(x), for None, str, bool and dicts of at most one str-valued key
PyStr(x) ==
    CASE x.t = "None" -> Str("None")
      [] x.t = "str"  -> x
      [] x.t = "bool" -> Str(IF x.v THEN "True" ELSE "False")
      [] x.t = "dict" ->
            IF DOMAIN x.v = {} THEN Str("{}")
            ELSE LET k == CHOOSE j \in DOMAIN x.v : TRUE
                 IN  Str("{'" \o k \o "': '" \o x.v[k].v \o "'}")
      [] OTHER        -> Str("<object>")

----------------------------------------------------------------------------
(* Errors *)

Err(type, msg) == [type |-> type, msg |-> msg]

NoError == Err("none", "")

----------------------------------------------------------------------------
(* __init__ *)

\* the tuple of mode not in (...)
InitModes == {"crawl", "scrape", "search", "map", "extract", "search"}

\* if not url
UrlMissing_SearchExempt(url, mode) == url = "" /\ mode # "search"

UrlMissing(url, mode) == url = ""

\* get_from_env("api_key", "FIRECRAWL_API_KEY"), imported from
\* langchain_core.utils and called without a default: the value of the
\* variable when it is set and non-empty; otherwise, no default being given,
\* the library raises ValueError("Did not find api_key, ...")
GetFromEnv(env) ==
    IF Truthy(env) THEN [ok |-> TRUE, value |-> env]
    ELSE [ok |-> FALSE, value |-> PyNone]

\* api_key or get_from_env(...)
ResolveApiKey(api_key, env) ==
    IF Truthy(api_key) THEN [ok |-> TRUE, value |-> api_key] ELSE GetFromEnv(env)

\* the exception __init__ leaves with, NoError when it returns
InitError(lib, url, mode, api_key, env) ==
    IF ~lib THEN Err("ImportError", "firecrawl package not found")
    ELSE IF mode \notin InitModes THEN Err("ValueError", "Invalid mode")
    ELSE IF UrlMissing(url, mode) THEN Err("ValueError", "Url must be provided")
    ELSE IF ~ResolveApiKey(api_key, env).ok THEN Err("ValueError", "Did not find api_key")
    ELSE NoError

----------------------------------------------------------------------------
(* Arguments client code passes, and answers of the external client *)

Urls == {"", "https://a.test"}

AllModes == {"crawl", "scrape", "map", "extract", "search", "sitemap"}

ApiKeys == {PyNone, Str(""), Str("fc-key")}

\* FIRECRAWL_API_KEY: unset, or set to the key
EnvKeys == {PyNone, Str("fc-key")}

ParamValue(k) ==
    CASE k = "maxDepth"           -> IntV(2)
      [] k = "limit"              -> IntV(10)
      [] k = "includePaths"       -> List(<<Str("/blog")>>)
      [] k = "excludePaths"       -> List(<<Str("/admin")>>)
      [] k = "allowExternalLinks" -> BoolV(TRUE)
      [] k = "allowBackwardLinks" -> BoolV(FALSE)
      [] k = "ignoreSitemap"      -> BoolV(TRUE)
      [] k = "scrapeOptions"      -> Dict([formats |-> List(<<Str("markdown")>>)])
      [] k = "query"              -> Str("x")
      [] k = "max_depth"          -> IntV(7)
      [] OTHER                    -> EmptyDict

ParamKeySets ==
    { {},
      {"maxDepth", "limit", "query"},
      {"maxDepth", "limit", "includePaths", "excludePaths", "allowExternalLinks",
       "allowBackwardLinks", "ignoreSitemap", "scrapeOptions", "crawlerOptions",
       "max_depth"} }

ParamDicts == {Dict([k \in S |-> ParamValue(k)]) : S \in ParamKeySets}

\* the params argument: None, or a dict
ParamsArgs == {PyNone} \cup ParamDicts

ContentNames == {"markdown", "html", "rawHtml"}

Title == Dict([title |-> Str("T")])

AttrVals(n) ==
    CASE n = "markdown" -> {PyNone, Str(""), Str("md")}
      [] n = "html"     -> {Str(""), Str("<p>h</p>")}
      [] n = "rawHtml"  -> {PyNone, Str("<raw>")}
      [] OTHER          -> {PyNone, EmptyDict, Title}

\* result objects of scrape_url without metadata: every subset of the three
\* content attributes, every value
ContentDocs ==
    UNION { { Obj(f) : f \in { g \in [S -> UNION {AttrVals(n) : n \in ContentNames}] :
                                 \A n \in S : g[n] \in AttrVals(n) } } :
            S \in SUBSET ContentNames }

\* result objects of scrape_url with a metadata attribute
MetadataDocs ==
    { Obj([markdown |-> Str("md"), metadata |-> m]) : m \in AttrVals("metadata") }

ScrapeDocs == ContentDocs \cup MetadataDocs

\* items of a crawl or search result
SeqDocs ==
    { Obj([markdown |-> Str("md"), html |-> Str("<p>h</p>"), metadata |-> Title]),
      Obj([markdown |-> PyNone, html |-> Str(""), rawHtml |-> Str("<raw>"),
           metadata |-> PyNone]),
      Obj([markdown |-> Str(""), html |-> Str(""), rawHtml |-> Str("")]) }

MapItems == {Str(""), Str("a"), Str("b")}

Seqs(S) == UNION {[1..n -> S] : n \in 0..MaxItems}

ScrapeResponses == ScrapeDocs

CrawlResponses == {Obj([data |-> List(q)]) : q \in Seqs(SeqDocs)} \cup {Obj(EmptyMap)}

MapResponses == {List(q) : q \in Seqs(MapItems)}

ExtractResponses ==
    {PyNone, Str(""), Str("data"), BoolV(FALSE), EmptyDict, Dict([markdown |-> Str("md")])}

SearchResponses == {List(q) : q \in Seqs(SeqDocs)}

\* exceptions the external client raises
UpstreamErrors == {Err("ConnectionError", "network"), Err("HTTPError", "401 unauthorized")}

\* FirecrawlApp(api_key=k)
FirecrawlApp(k) == Obj([api_key |-> k])

\* clients client code assigns to the attribute firecrawl
Clients == {FirecrawlApp(Str("fc-key")), FirecrawlApp(Str("other-key"))}

\* from firecrawl import ScrapeOptions; ScrapeOptions(**d): the object is
\* built, the name cannot be imported, or the constructor raises
SoOutcomes == {"built", "ImportError", "rejected"}

----------------------------------------------------------------------------
(* Construction and attribute assignment *)

NoDoc == PyNone

ResetLocals ==
    /\ idx' = 0
    /\ doc' = NoDoc
    /\ page_content' = PyNone
    /\ metadata' = PyNone
    /\ yielded' = FALSE
    /\ emitted' = <<>>

Init ==
    /\ constructed = FALSE
    /\ self_url = ""
    /\ self_mode = ""
    /\ self_params = EmptyDict
    /\ self_firecrawl = PyNone
    /\ op = [name |-> "none"]
    /\ reassigned = FALSE
    /\ pc = "idle"
    /\ load_state = "none"
    /\ load_error = NoError
    /\ so_outcome = "unused"
    /\ calls = <<>>
    /\ response = PyNone
    /\ firecrawl_docs = <<>>
    /\ idx = 0
    /\ doc = NoDoc
    /\ page_content = PyNone
    /\ metadata = PyNone
    /\ yielded = FALSE
    /\ emitted = <<>>

load == <<reassigned, pc, load_state, load_error, so_outcome, calls, response,
          firecrawl_docs, idx, doc, page_content, metadata, yielded, emitted>>

\* FireCrawlLoader(url, api_key=..., mode=..., params=...): the one instance of
\* a run; an attempt that raised can be followed by another
Construct ==
    /\ ~constructed
    /\ \E lib \in BOOLEAN, url \in Urls, mode \in AllModes, api_key \in ApiKeys,
          env \in EnvKeys, params \in ParamsArgs :
         LET e == InitError(lib, url, mode, api_key, env) IN
         /\ op' = [name |-> "init", lib |-> lib, url |-> url, mode |-> mode,
                   api_key |-> api_key, env |-> env, params |-> params, error |-> e]
         /\ IF e = NoError
            THEN /\ constructed' = TRUE
                 /\ self_firecrawl' = FirecrawlApp(ResolveApiKey(api_key, env).value)
                 /\ self_url' = url
                 /\ self_mode' = mode
                 /\ self_params' = Or(params, EmptyDict)
            ELSE UNCHANGED <<constructed, self_firecrawl, self_url, self_mode, self_params>>
    /\ UNCHANGED load

\* the generator is stopped at its yield
Suspended == pc = "iter" /\ yielded

\* no code of the loader is running: client code acts
ClientTurn == constructed /\ (pc = "idle" \/ Suspended)

\* loader.url = u
AssignUrl ==
    /\ ClientTurn
    /\ \E u \in Urls : u # self_url /\ self_url' = u
    /\ UNCHANGED <<constructed, self_mode, self_params, self_firecrawl, op, load>>

\* loader.mode = m
AssignMode ==
    /\ ClientTurn
    /\ \E m \in AllModes : m # self_mode /\ self_mode' = m
    /\ reassigned' = (reassigned \/ Suspended)
    /\ UNCHANGED <<constructed, self_url, self_params, self_firecrawl, op, pc,
                   load_state, load_error, so_outcome, calls, response,
                   firecrawl_docs, idx, locals, emitted>>

\* loader.params = p
AssignParams ==
    /\ ClientTurn
    /\ \E p \in ParamDicts : p # self_params /\ self_params' = p
    /\ UNCHANGED <<constructed, self_url, self_mode, self_firecrawl, op, load>>

\* loader.firecrawl = c
AssignFirecrawl ==
    /\ ClientTurn
    /\ \E c \in Clients : c # self_firecrawl /\ self_firecrawl' = c
    /\ UNCHANGED <<constructed, self_url, self_mode, self_params, op, load>>

----------------------------------------------------------------------------
(* lazy_load: dispatch *)

\* the modes the if/elif chain of lazy_load has a branch for
DispatchModes == {"scrape", "crawl", "map", "extract", "search"}

\* the method of self.firecrawl the branch of a mode calls
ExternalOp_MapCrawls(mode) ==
    CASE mode = "scrape"  -> "scrape_url"
      [] mode = "crawl"   -> "crawl_url"
      [] mode = "map"     -> "crawl_url"
      [] mode = "extract" -> "extract"
      [] OTHER            -> "search"

ExternalOp(mode) ==
    CASE mode = "scrape"  -> "scrape_url"
      [] mode = "crawl"   -> "crawl_url"
      [] mode = "map"     -> "map_url"
      [] mode = "extract" -> "extract"
      [] OTHER            -> "search"

\* the branches that start with: if not self.url: raise ValueError
NeedsUrl_NotMap(mode) == mode \in {"crawl", "extract"}

NeedsUrl(mode) == mode \in {"crawl", "map", "extract"}

\* "scrapeOptions" in self.params
HasScrapeOptions(params) == "scrapeOptions" \in DOMAIN params.v

\* ScrapeOptions(**d)
ScrapeOptionsObj(d) == [t |-> "ScrapeOptions", v |-> d.v]

\* except ImportError: catches the failed import only
SoRaises(so) == so = "rejected"

SoError == Err("ValidationError", "ScrapeOptions")

\* scrape branch: scrape_options stays None when the import fails
ScrapeScrapeOptions(so, params) ==
    IF so = "built" THEN ScrapeOptionsObj(params.v["scrapeOptions"]) ELSE PyNone

\* crawl branch: crawl_kwargs['scrape_options'], the raw dict when the import fails
CrawlScrapeOptions_NoFallback(so, params) == ScrapeScrapeOptions(so, params)

CrawlScrapeOptions(so, params) ==
    IF so = "built" THEN ScrapeOptionsObj(params.v["scrapeOptions"])
    ELSE params.v["scrapeOptions"]

\* the seven  if 'camelKey' in self.params: crawl_kwargs['snake_key'] = ...
CrawlKeyMap ==
    << <<"maxDepth", "max_depth">>,
       <<"limit", "limit">>,
       <<"includePaths", "include_paths">>,
       <<"excludePaths", "exclude_paths">>,
       <<"allowExternalLinks", "allow_external_links">>,
       <<"allowBackwardLinks", "allow_backward_links">>,
       <<"ignoreSitemap", "ignore_sitemap">> >>

CrawlKwargs_PassThrough(params) == params.v

CrawlKwargs(params) ==
    LET present == {i \in DOMAIN CrawlKeyMap : CrawlKeyMap[i][1] \in DOMAIN params.v}
    IN  [k \in {CrawlKeyMap[i][2] : i \in present} |->
            params.v[CrawlKeyMap[CHOOSE i \in present : CrawlKeyMap[i][2] = k][1]]]

\* crawl_kwargs after the scrapeOptions block
WithScrapeOptions(kw, val) ==
    [k \in DOMAIN kw \cup {"scrape_options"} |->
        IF k = "scrape_options" THEN val ELSE kw[k]]

\* self.params.get(key)
DictGet(params, key) == IF key \in DOMAIN params.v THEN params.v[key] ELSE PyNone

Call(name, args, kwargs) == [op |-> name, args |-> args, kwargs |-> kwargs]

\* firecrawl_docs, from the value the external call returned
FirecrawlDocs(mode, r) ==
    CASE mode = "scrape"  -> <<r>>
      [] mode = "crawl"   -> IF HasAttr(r, "data") THEN r.v["data"].v ELSE <<>>
      [] mode = "extract" -> <<PyStr(r)>>
      [] OTHER            -> r.v

\* an exception of the external call is not caught: it leaves lazy_load
OnUpstreamError_Swallow(e) == [load_error |-> NoError, load_state |-> "running", pc |-> "iter"]

OnUpstreamError(e) == [load_error |-> e, load_state |-> "failed", pc |-> "idle"]

\* lazy_load() followed by the first next(): the body has no guard of its own
LoadGuard == ClientTurn

\* a new generator: nothing was assigned under it yet
NewGenerator == reassigned' = FALSE

\* lazy_load raises before any call to self.firecrawl
RaiseBeforeCall(e, so) ==
    /\ load_error' = e
    /\ load_state' = "failed"
    /\ so_outcome' = so
    /\ calls' = <<>>
    /\ response' = PyNone
    /\ firecrawl_docs' = <<>>
    /\ ResetLocals
    /\ op' = [name |-> "lazy_load"]
    /\ NewGenerator
    /\ pc' = "idle"
    /\ UNCHANGED inst

\* the one call to self.firecrawl: it raises, or returns a value of R
CallFirecrawl(c, R, so) ==
    /\ calls' = <<c>>
    /\ so_outcome' = so
    /\ ResetLocals
    /\ op' = [name |-> "lazy_load"]
    /\ NewGenerator
    /\ UNCHANGED inst
    /\ \/ \E e \in UpstreamErrors :
            /\ response' = [t |-> "raised", v |-> e]
            /\ firecrawl_docs' = <<>>
            /\ load_error' = OnUpstreamError(e).load_error
            /\ load_state' = OnUpstreamError(e).load_state
            /\ pc' = OnUpstreamError(e).pc
       \/ \E r \in R :
            /\ response' = r
            /\ firecrawl_docs' = FirecrawlDocs(self_mode, r)
            /\ load_error' = NoError
            /\ load_state' = "running"
            /\ pc' = "iter"

SoChoices == IF HasScrapeOptions(self_params) THEN SoOutcomes ELSE {"unused"}

DispatchScrape ==
    /\ LoadGuard
    /\ self_mode = "scrape"
    /\ \E so \in SoChoices :
         IF SoRaises(so) THEN RaiseBeforeCall(SoError, so)
         ELSE CallFirecrawl(
                Call(ExternalOp(self_mode), <<Str(self_url)>>,
                     [scrape_options |-> IF so = "unused" THEN PyNone
                                         ELSE ScrapeScrapeOptions(so, self_params)]),
                ScrapeResponses, so)

DispatchCrawl ==
    /\ LoadGuard
    /\ self_mode = "crawl"
    /\ IF NeedsUrl(self_mode) /\ self_url = ""
       THEN RaiseBeforeCall(Err("ValueError", "URL is required for crawl mode"), "unused")
       ELSE \E so \in SoChoices :
              IF SoRaises(so) THEN RaiseBeforeCall(SoError, so)
              ELSE CallFirecrawl(
                     Call(ExternalOp(self_mode), <<Str(self_url)>>,
                          IF so = "unused" THEN CrawlKwargs(self_params)
                          ELSE WithScrapeOptions(CrawlKwargs(self_params),
                                                 CrawlScrapeOptions(so, self_params))),
                     CrawlResponses, so)

DispatchMap ==
    /\ LoadGuard
    /\ self_mode = "map"
    /\ IF NeedsUrl(self_mode) /\ self_url = ""
       THEN RaiseBeforeCall(Err("ValueError", "URL is required for map mode"), "unused")
       ELSE CallFirecrawl(
              Call(ExternalOp(self_mode), <<Str(self_url)>>, [params |-> self_params]),
              MapResponses, "unused")

DispatchExtract ==
    /\ LoadGuard
    /\ self_mode = "extract"
    /\ IF NeedsUrl(self_mode) /\ self_url = ""
       THEN RaiseBeforeCall(Err("ValueError", "URL is required for extract mode"), "unused")
       ELSE CallFirecrawl(
              Call(ExternalOp(self_mode), <<List(<<Str(self_url)>>)>>,
                   [params |-> self_params]),
              ExtractResponses, "unused")

DispatchSearch ==
    /\ LoadGuard
    /\ self_mode = "search"
    /\ CallFirecrawl(
         Call(ExternalOp(self_mode), <<>>,
              [query |-> DictGet(self_params, "query"), params |-> self_params]),
         SearchResponses, "unused")

DispatchInvalid ==
    /\ LoadGuard
    /\ self_mode \notin DispatchModes
    /\ RaiseBeforeCall(Err("ValueError", "Invalid mode"), "unused")

----------------------------------------------------------------------------
(* lazy_load: the for loop *)

\* if self.mode == "map" or self.mode == "extract"
UsesItemAsContent_MapOnly(mode) == mode = "map"

UsesItemAsContent(mode) == mode = "map" \/ mode = "extract"

PageContent_HtmlFirst(mode, d) ==
    IF UsesItemAsContent(mode) THEN d
    ELSE Or(Or(GetAttr(d, "html", PyNone), GetAttr(d, "markdown", PyNone)),
            GetAttr(d, "rawHtml", Str("")))

PageContent(mode, d) ==
    IF UsesItemAsContent(mode) THEN d
    ELSE Or(Or(GetAttr(d, "markdown", PyNone), GetAttr(d, "html", PyNone)),
            GetAttr(d, "rawHtml", Str("")))

Metadata(mode, d) ==
    IF UsesItemAsContent(mode) THEN EmptyDict
    ELSE Or(GetAttr(d, "metadata", EmptyDict), EmptyDict)

\* if not page_content: continue
Skips_Never(pcnt) == FALSE

Skips(pcnt) == ~Truthy(pcnt)

Document(pcnt, md) == [page_content |-> pcnt, metadata |-> md]

\* langchain_core Document declares page_content: str; its validation raises
\* for any other value
DocumentRejects(pcnt) == pcnt.t # "str"

DocumentError == Err("ValidationError", "Document")

\* what a pass assigns before its if
TakeItem ==
    /\ doc' = firecrawl_docs[idx + 1]
    /\ page_content' = PageContent(self_mode, firecrawl_docs[idx + 1])
    /\ metadata' = Metadata(self_mode, firecrawl_docs[idx + 1])
    /\ idx' = idx + 1
    /\ op' = [name |-> "next"]

\* one pass of the loop body that ends at continue
IterSkip ==
    /\ pc = "iter"
    /\ idx < Len(firecrawl_docs)
    /\ Skips(PageContent(self_mode, firecrawl_docs[idx + 1]))
    /\ TakeItem
    /\ yielded' = FALSE
    /\ UNCHANGED <<inst, reassigned, pc, load_state, load_error, so_outcome, calls,
                   response, firecrawl_docs, emitted>>

\* one pass of the loop body that ends at yield
IterYield ==
    /\ pc = "iter"
    /\ idx < Len(firecrawl_docs)
    /\ ~Skips(PageContent(self_mode, firecrawl_docs[idx + 1]))
    /\ ~DocumentRejects(PageContent(self_mode, firecrawl_docs[idx + 1]))
    /\ TakeItem
    /\ emitted' = Append(emitted, Document(PageContent(self_mode, firecrawl_docs[idx + 1]),
                                           Metadata(self_mode, firecrawl_docs[idx + 1])))
    /\ yielded' = TRUE
    /\ UNCHANGED <<inst, reassigned, pc, load_state, load_error, so_outcome, calls,
                   response, firecrawl_docs>>

\* one pass of the loop body in which Document(...) raises
IterRaise ==
    /\ pc = "iter"
    /\ idx < Len(firecrawl_docs)
    /\ ~Skips(PageContent(self_mode, firecrawl_docs[idx + 1]))
    /\ DocumentRejects(PageContent(self_mode, firecrawl_docs[idx + 1]))
    /\ TakeItem
    /\ yielded' = FALSE
    /\ pc' = "idle"
    /\ load_state' = "failed"
    /\ load_error' = DocumentError
    /\ UNCHANGED <<inst, reassigned, so_outcome, calls, response, firecrawl_docs,
                   emitted>>

\* the loop is exhausted: the generator returns
IterEnd ==
    /\ pc = "iter"
    /\ idx = Len(firecrawl_docs)
    /\ pc' = "idle"
    /\ load_state' = "done"
    /\ yielded' = FALSE
    /\ op' = [name |-> "next"]
    /\ UNCHANGED <<inst, reassigned, load_error, so_outcome, calls, response,
                   firecrawl_docs, idx, doc, page_content, metadata, emitted>>

\* the suspended generator is closed or dropped: no code of it runs again
Close ==
    /\ constructed
    /\ Suspended
    /\ pc' = "idle"
    /\ load_state' = "closed"
    /\ yielded' = FALSE
    /\ op' = [name |-> "close"]
    /\ UNCHANGED <<inst, reassigned, load_error, so_outcome, calls, response,
                   firecrawl_docs, idx, doc, page_content, metadata, emitted>>

Next ==
    \/ Construct
    \/ AssignUrl
    \/ AssignMode
    \/ AssignParams
    \/ AssignFirecrawl
    \/ DispatchScrape
    \/ DispatchCrawl
    \/ DispatchMap
    \/ DispatchExtract
    \/ DispatchSearch
    \/ DispatchInvalid
    \/ IterSkip
    \/ IterYield
    \/ IterRaise
    \/ IterEnd
    \/ Close

Spec == Init /\ [][Next]_vars

----------------------------------------------------------------------------
(* Vocabulary of the properties *)

FiveModes == {"scrape", "crawl", "map", "extract", "search"}

InitDone == op.name = "init" /\ op.lib

KeyAvailable == Truthy(op.api_key) \/ Truthy(op.env)

\* a load was dispatched
Dispatched == load_state # "none"

\* the dispatch reached the external call
CallMade == Len(calls) > 0

\* a step that runs the dispatch part of lazy_load: it reads the unprimed
\* self_url, self_mode and self_params (attribute assignments leave op as it is
\* and change an attribute)
DispatchStep == op'.name = "lazy_load" /\ UNCHANGED inst

\* a step that runs one pass of the for loop: it reads the unprimed self_mode
PassStep == idx' = idx + 1

NextItem == firecrawl_docs[idx + 1]

NonEmptyStr(x) == x.t = "str" /\ x.v # ""

Field(x, n) == IF x.t = "obj" /\ n \in DOMAIN x.v THEN x.v[n] ELSE PyNone

OpOfMode(mode) ==
    CASE mode = "scrape"  -> "scrape_url"
      [] mode = "crawl"   -> "crawl_url"
      [] mode = "map"     -> "map_url"
      [] mode = "extract" -> "extract"
      [] mode = "search"  -> "search"
      [] OTHER            -> "none"

\* the mode the load was dispatched in, from the call it made
LoadMode == CHOOSE m \in FiveModes : OpOfMode(m) = calls[1].op

\* a load that made its call and under which self.mode was not reassigned
Undisturbed == load_state \in {"running", "done", "closed"} /\ CallMade /\ ~reassigned

----------------------------------------------------------------------------
(* C1 *)

\* C1: with the client library available, construction succeeds exactly when
\* the mode is one of the five and the url is non-empty, and otherwise fails
\* with ValueError and produces no instance.  The code violates it: with a
\* valid mode, a non-empty url, no api_key argument and FIRECRAWL_API_KEY
\* unset, line 110 raises ValueError inside __init__.
C1_Original ==
    InitDone =>
        /\ (op.error = NoError) <=> (op.mode \in FiveModes /\ op.url # "")
        /\ op.error = NoError => constructed
        /\ op.error # NoError => op.error.type = "ValueError" /\ ~constructed

----------------------------------------------------------------------------
(* C2 *)

\* the url the recorded call was given
CallUrl ==
    IF calls[1].op = "extract" THEN calls[1].args[1].v[1] ELSE calls[1].args[1]

\* C2 (as stated): a Search loader may be constructed and loaded with an empty
\* url, while Crawl, Map, Extract and Scrape never operate on an empty url.
C2_Original ==
    /\ (InitDone /\ op.mode = "search" /\ op.url = "" /\ KeyAvailable)
          => op.error = NoError
    /\ (CallMade /\ calls[1].op \in {"crawl_url", "map_url", "extract", "scrape_url"})
          => CallUrl # Str("")

\* C2 (amended): construction requires a non-empty url for every mode, Search
\* included; dispatch re-checks the url for Crawl, Map and Extract, which
\* therefore never call their external operation with an empty url, and does
\* not check it for Scrape and Search.
C2_UrlRequiredAtConstruction ==
    /\ (op.name = "init" /\ op.url = "") => (op.error # NoError /\ ~constructed)
    /\ (InitDone /\ op.url = "" /\ op.mode \in FiveModes)
          => op.error = Err("ValueError", "Url must be provided")
    /\ (CallMade /\ calls[1].op \in {"crawl_url", "map_url", "extract"})
          => CallUrl # Str("")

C2_Witness ==
    /\ InitDone /\ op.mode = "search" /\ op.url = "" /\ KeyAvailable
    /\ op.error.type = "ValueError" /\ ~constructed

----------------------------------------------------------------------------
(* C3 *)

HasContent(r) == r.page_content # PyNone /\ r.page_content # Str("")

Resolved(mode, x) == Document(PageContent(mode, x), Metadata(mode, x))

\* the record of every item taken so far, as the mode of the load resolves it
ResolvedRecords == [i \in 1..idx |-> Resolved(LoadMode, firecrawl_docs[i])]

\* C3: no emitted record has empty content; a pass of the loop appends the
\* record of the item it takes when the content resolved for it is non-empty
\* and appends nothing otherwise, and no other step touches the records; so in
\* every mode the records of a load are the items whose resolved content is
\* non-empty, in the order returned, one record each, and a finished load has
\* taken every item.
C3_EmitsNonEmptySubsequence ==
    /\ [](\A i \in 1..Len(emitted) : NonEmptyStr(emitted[i].page_content))
    /\ [][PassStep =>
            emitted' = IF NonEmptyStr(PageContent(self_mode, NextItem))
                       THEN Append(emitted, Resolved(self_mode, NextItem))
                       ELSE emitted]_vars
    /\ [][idx' = idx => emitted' = emitted]_vars
    /\ [](Undisturbed => emitted = SelectSeq(ResolvedRecords, HasContent))
    /\ [](load_state = "done" => idx = Len(firecrawl_docs))

C3_Witness ==
    /\ load_state = "done" /\ calls[1].op = "crawl_url" /\ ~reassigned
    /\ Len(firecrawl_docs) = 2 /\ Len(emitted) = 1
    /\ ~HasContent(ResolvedRecords[1])
    /\ emitted[1] = ResolvedRecords[2]

----------------------------------------------------------------------------
(* C4 *)

\* the dispatch found nothing to reject: mode, url and scrape options
PassedValidation ==
    Dispatched /\ load_error.type # "ValueError" /\ load_error # SoError

\* C4: a load that passes dispatch validation has made exactly one external
\* call, the one of the mode the instance has when the load is dispatched;
\* construction stores the mode it is given, no step that runs code of the
\* loader changes it, and resuming or closing the generator makes no call.
C4_OneCallByMode ==
    /\ [](PassedValidation => Len(calls) = 1)
    /\ [][(DispatchStep /\ Len(calls') > 0) =>
            calls' = <<[calls'[1] EXCEPT !.op = OpOfMode(self_mode)]>>]_vars
    /\ [][(~constructed /\ constructed') => self_mode' = op'.mode]_vars
    /\ [][self_mode' # self_mode =>
            (~constructed \/ UNCHANGED <<op, pc, idx, calls, emitted, load_state>>)]_vars
    /\ [][(PassStep \/ (op' # op /\ op'.name \in {"next", "close"})) =>
            calls' = calls]_vars

C4_Witness ==
    /\ load_state = "done" /\ self_mode = "map"
    /\ Len(calls) = 1 /\ calls[1].op = "map_url"
    /\ idx = 2 /\ Len(emitted) = 2

----------------------------------------------------------------------------
(* C5 *)

FirstNonEmpty(x) ==
    IF NonEmptyStr(Field(x, "markdown")) THEN Field(x, "markdown")
    ELSE IF NonEmptyStr(Field(x, "html")) THEN Field(x, "html")
    ELSE IF NonEmptyStr(Field(x, "rawHtml")) THEN Field(x, "rawHtml")
    ELSE Str("")

MetadataOrEmpty(x) ==
    IF Field(x, "metadata") = PyNone THEN EmptyDict ELSE Field(x, "metadata")

\* C5: a pass of the loop made in Scrape, Crawl or Search mode resolves the
\* content of its item to the first non-empty of markdown, html and rawHtml,
\* in that order, and to an empty content when none is; the metadata to the
\* item's metadata, or the empty mapping when that is absent or None; and the
\* record it yields carries exactly these two.
C5_FirstNonEmptyField ==
    [][(PassStep /\ self_mode \in {"scrape", "crawl", "search"}) =>
         /\ doc' = NextItem
         /\ metadata' = MetadataOrEmpty(NextItem)
         /\ FirstNonEmpty(NextItem) # Str("") =>
               /\ page_content' = FirstNonEmpty(NextItem)
               /\ yielded'
               /\ emitted' = Append(emitted, Document(FirstNonEmpty(NextItem),
                                                      MetadataOrEmpty(NextItem)))
         /\ FirstNonEmpty(NextItem) = Str("") =>
               /\ page_content' \in {Str(""), PyNone}
               /\ ~yielded'
               /\ emitted' = emitted]_vars

C5_Witness ==
    /\ self_mode = "scrape" /\ idx = 1 /\ yielded /\ ~reassigned
    /\ DOMAIN doc.v = {"markdown", "html", "rawHtml"}
    /\ doc.v["markdown"] = PyNone /\ doc.v["html"] = Str("")
    /\ emitted = <<Document(Str("<raw>"), EmptyDict)>>

----------------------------------------------------------------------------
(* C6 *)

IsNonEmptyItem(x) == x # Str("")

AsRecord(q) == [i \in 1..Len(q) |-> Document(q[i], EmptyDict)]

\* C6: a pass of the loop made in Map or Extract mode takes the item itself as
\* the content and the empty mapping as the metadata; a Map load emits one
\* record per non-empty returned string, in the returned order; an Extract
\* load calls with the one-element list of the url and emits at most one
\* record, whose content is str() of the result.
C6_ItemIsContent ==
    /\ [][(PassStep /\ self_mode \in {"map", "extract"}) =>
            /\ page_content' = NextItem
            /\ metadata' = EmptyDict
            /\ NonEmptyStr(NextItem) =>
                  emitted' = Append(emitted, Document(NextItem, EmptyDict))
            /\ NextItem = Str("") => emitted' = emitted]_vars
    /\ []((Undisturbed /\ calls[1].op = "map_url") =>
            emitted = AsRecord(SelectSeq(SubSeq(response.v, 1, idx), IsNonEmptyItem)))
    /\ [][(DispatchStep /\ self_mode = "extract" /\ Len(calls') > 0) =>
            calls'[1].args = <<List(<<Str(self_url)>>)>>]_vars
    /\ []((CallMade /\ calls[1].op = "extract" /\ response.t # "raised") =>
            /\ firecrawl_docs = <<PyStr(response)>>
            /\ Len(emitted) <= 1
            /\ idx = 1 =>
                  emitted = IF PyStr(response) = Str("") THEN <<>>
                            ELSE <<Document(PyStr(response), EmptyDict)>>)

C6_Witness ==
    /\ load_state = "done" /\ calls[1].op = "extract"
    /\ response = Dict([markdown |-> Str("md")])
    /\ emitted = <<Document(Str("{'markdown': 'md'}"), EmptyDict)>>

----------------------------------------------------------------------------
(* C7 *)

RecognizedKeys ==
    {"maxDepth", "limit", "includePaths", "excludePaths", "allowExternalLinks",
     "allowBackwardLinks", "ignoreSitemap", "scrapeOptions"}

Translated(k) ==
    CASE k = "maxDepth"           -> "max_depth"
      [] k = "limit"              -> "limit"
      [] k = "includePaths"       -> "include_paths"
      [] k = "excludePaths"       -> "exclude_paths"
      [] k = "allowExternalLinks" -> "allow_external_links"
      [] k = "allowBackwardLinks" -> "allow_backward_links"
      [] k = "ignoreSitemap"      -> "ignore_sitemap"
      [] k = "scrapeOptions"      -> "scrape_options"

\* a step that dispatches in Crawl mode and reaches crawl_url
CrawlCallStep == DispatchStep /\ self_mode = "crawl" /\ Len(calls') > 0

PresentRecognized == DOMAIN self_params.v \cap RecognizedKeys

\* C7 (as stated): the crawl call receives exactly the translated recognized
\* keys present in params, each with the value params holds for it.
C7_Original ==
    [][CrawlCallStep =>
         /\ DOMAIN calls'[1].kwargs = {Translated(k) : k \in PresentRecognized}
         /\ \A k \in PresentRecognized :
               calls'[1].kwargs[Translated(k)] = self_params.v[k]]_vars

\* C7 (amended): the crawl call receives exactly the translated recognized
\* keys present in params; the seven keys other than scrapeOptions carry the
\* value params holds for them, and scrape_options carries the ScrapeOptions
\* value built from the sub-mapping, or the sub-mapping itself when
\* ScrapeOptions cannot be imported.
C7_CrawlKwargsTranslated ==
    [][CrawlCallStep =>
         /\ calls'[1].op = "crawl_url"
         /\ calls'[1].args = <<Str(self_url)>>
         /\ DOMAIN calls'[1].kwargs = {Translated(k) : k \in PresentRecognized}
         /\ \A k \in PresentRecognized \ {"scrapeOptions"} :
               calls'[1].kwargs[Translated(k)] = self_params.v[k]
         /\ "scrapeOptions" \in DOMAIN self_params.v =>
               calls'[1].kwargs["scrape_options"] =
                   IF so_outcome' = "ImportError" THEN self_params.v["scrapeOptions"]
                   ELSE [t |-> "ScrapeOptions", v |-> self_params.v["scrapeOptions"].v]]_vars

C7_Witness ==
    /\ op.name = "lazy_load" /\ self_mode = "crawl" /\ CallMade
    /\ DOMAIN self_params.v = {"maxDepth", "limit", "query"}
    /\ calls[1].op = "crawl_url"
    /\ calls[1].kwargs = [max_depth |-> IntV(2), limit |-> IntV(10)]

----------------------------------------------------------------------------
(* C8 *)

ExternalRaised == response.t = "raised"

\* C8: when the external call of a load raises, that error is the one that
\* leaves the load, no record has been emitted, the generator is finished,
\* and the call that raised is the only call made.
C8_UpstreamErrorPropagates ==
    ExternalRaised =>
        /\ load_error = response.v
        /\ load_state = "failed"
        /\ pc = "idle"
        /\ emitted = <<>>
        /\ Len(calls) = 1

C8_Witness ==
    /\ ExternalRaised /\ calls[1].op = "crawl_url"
    /\ load_error = Err("ConnectionError", "network")
    /\ load_state = "failed"

----------------------------------------------------------------------------
(* C9 *)

\* a step that dispatches in Crawl mode, past the url check, with scrapeOptions
CrawlSoStep ==
    /\ DispatchStep /\ self_mode = "crawl" /\ self_url # ""
    /\ "scrapeOptions" \in DOMAIN self_params.v

RawPassed ==
    /\ Len(calls') = 1
    /\ calls'[1].op = "crawl_url"
    /\ calls'[1].kwargs["scrape_options"] = self_params.v["scrapeOptions"]

\* C9 (as stated): in Crawl mode with scrapeOptions in params, whenever the
\* ScrapeOptions value cannot be built (import fails, or the constructor
\* rejects the sub-mapping) the crawl call is still made with the raw mapping.
C9_Original ==
    [][(CrawlSoStep /\ so_outcome' \in {"ImportError", "rejected"}) => RawPassed]_vars

\* C9 (amended): in Crawl mode with scrapeOptions in params, when ScrapeOptions
\* cannot be imported the crawl call is still made and receives the raw
\* mapping; when its constructor rejects the sub-mapping, the constructor's
\* error leaves the load, no external call is made and nothing is emitted.
C9_FallbackOnImportErrorOnly ==
    [][CrawlSoStep =>
         /\ so_outcome' \in SoOutcomes
         /\ so_outcome' = "ImportError" =>
               /\ RawPassed
               /\ load_error' \in {NoError} \cup UpstreamErrors
         /\ so_outcome' = "rejected" =>
               /\ calls' = <<>>
               /\ load_error' = SoError
               /\ load_state' = "failed"
               /\ pc' = "idle"
               /\ emitted' = <<>>]_vars

C9_Witness ==
    /\ so_outcome = "ImportError" /\ CallMade /\ calls[1].op = "crawl_url"
    /\ load_state = "done" /\ Len(emitted) > 0
    /\ calls[1].kwargs["scrape_options"] = Dict([formats |-> List(<<Str("markdown")>>)])

----------------------------------------------------------------------------
(* C10 *)

RejectedAtDispatch ==
    \/ self_mode \notin FiveModes
    \/ self_url = "" /\ self_mode \in {"crawl", "map", "extract"}

\* C10: a load dispatched while the mode is outside the five values, or while
\* the url is empty and the mode is Crawl, Map or Extract, fails with
\* ValueError before any external call and without emitting a record; Scrape
\* and Search do not check the url: with an empty url they still make their
\* call.
C10_DispatchRevalidates ==
    [][DispatchStep =>
         /\ RejectedAtDispatch =>
               /\ load_state' = "failed"
               /\ load_error'.type = "ValueError"
               /\ calls' = <<>>
               /\ emitted' = <<>>
               /\ pc' = "idle"
         /\ (self_url = "" /\ self_mode \in {"scrape", "search"}
               /\ so_outcome' # "rejected") =>
               /\ load_error'.type # "ValueError"
               /\ Len(calls') = 1
               /\ calls'[1].op = OpOfMode(self_mode)]_vars

C10_Witness ==
    /\ op.name = "lazy_load" /\ load_state = "failed"
    /\ self_mode = "map" /\ self_url = ""
    /\ load_error = Err("ValueError", "URL is required for map mode")
    /\ calls = <<>>

====
